---- MODULE Spec2Model ----
(***************************************************************************)
(* A model of BasicPitchTranscribe.run (src/plugin.py): one invocation is  *)
(* a small sequential process over the Song it was handed, the temporary   *)
(* directory and the module-level model handle.                            *)
(*                                                                         *)
(* Time is counted in milliseconds (the code's float seconds times 1000),  *)
(* frequencies in 1/HzScale Hz.  Song, Track, Clip, pitch_to_hz and the    *)
(* engine (predict) are collaborators of the plugin: they are modelled at  *)
(* the calls run makes on them.  A clip's `notes` is the sequence of       *)
(* create_note calls issued on it, in order, with the arguments passed.    *)
(***************************************************************************)
EXTENDS Integers, Sequences, FiniteSets, TLC

VARIABLES
    pc,                 \* [Inv -> position of the invocation in run]
    before,             \* [Inv -> the song as it was when run was called]
    params,             \* [Inv -> the params dict of the call]
    env,                \* [Inv -> which collaborator call raises, if any]
    song,               \* [Inv -> the Song object handed to the call]
    frame,              \* [Inv -> the local variables of run]
    exc,                \* [Inv -> the exception that left run, or "none"]
    caught,             \* [Inv -> the step whose exception the handler caught]
    files,              \* the temporary directory: name -> file
    basic_pitch_model   \* the module-level model handle (line 14)

vars == <<pc, before, params, env, song, frame, exc, caught, files, basic_pitch_model>>

----------------------------------------------------------------------------
(* Bounds of the model *)

NInv == 2          \* invocations of run
MaxNotes == 2      \* notes in one engine result

Inv == 1..NInv

(* Program constants *)

MinAllowedPitch == 28
MaxAllowedPitch == 102
DefaultMinPitch == 28
DefaultMaxPitch == 102
PPQ == 480         \* ticks per quarter note of the song timeline
HzScale == 100000  \* frequencies are held in units of 1/HzScale Hz
MsPerMinute == 60000

----------------------------------------------------------------------------
(* Arithmetic *)

Floor(q) == q \div HzScale

Ceil(q) == (q + HzScale - 1) \div HzScale

\* Python's round(n / d) for d > 0: to the nearest integer, ties to even.
Round(n, d) ==
    LET q == n \div d
        r == n % d
    IN  IF 2 * r < d THEN q
        ELSE IF 2 * r > d THEN q + 1
        ELSE IF q % 2 = 0 THEN q ELSE q + 1

\* floor(1760 * 2^(j/12) * HzScale) for j = 0..11: the twelve pitches from 93 up.
TopOctaveHz ==
    <<176000000, 186465504, 197553320, 209300452, 221746104, 234931814,
      248901586, 263702045, 279382585, 295995538, 313596348, 332243758>>

RECURSIVE Pow2(_)
Pow2(k) == IF k <= 0 THEN 1 ELSE 2 * Pow2(k - 1)

\* pitch_to_hz(pitch) = 440 * 2^((pitch - 69) / 12), in 1/HzScale Hz, for
\* pitches up to 104.  Exact when pitch - 69 is a multiple of 12.
PitchToHz(pitch) ==
    LET j == (pitch - 69) % 12
        o == (pitch - 69 - j) \div 12
    IN  TopOctaveHz[j + 1] \div Pow2(2 - o)

\* (a slip: the lower bound rounded up)
MinFreqMutant(p) == Ceil(PitchToHz(p))
\* line 151: floor(pitch_to_hz(params["minPitch"]))
MinFreqOf(p) == Floor(PitchToHz(p))

\* line 152: ceil(pitch_to_hz(params["maxPitch"]))
MaxFreqOf(p) == Ceil(PitchToHz(p))

----------------------------------------------------------------------------
(* The song timeline *)

None == [id |-> "None"]

\* song.get_tempo_event_at_tick(tick): the last tempo event at or before it
TempoAtTick(s, tick) ==
    LET idx == {k \in 1..Len(s.tempos) : s.tempos[k].ticks <= tick}
    IN  s.tempos[CHOOSE k \in idx : \A m \in idx : m <= k]

\* the tempo event in force at a time: the last one at or before it
TempoAtTime(s, ms) ==
    LET idx == {k \in 1..Len(s.tempos) : s.tempos[k].time <= ms}
    IN  s.tempos[CHOOSE k \in idx : \A m \in idx : m <= k]

\* song.tick_to_seconds(tick), in ms
TickToSeconds(s, tick) ==
    LET e == TempoAtTick(s, tick)
    IN  e.time + ((tick - e.ticks) * MsPerMinute) \div (e.bpm * PPQ)

\* song.seconds_to_tick(seconds), seconds in ms
SecondsToTick(s, ms) ==
    LET e == TempoAtTime(s, ms)
    IN  Round(e.ticks * MsPerMinute + (ms - e.time) * e.bpm * PPQ, MsPerMinute)

\* song.get_track_by_id(track_id)
GetTrackById(s, id) ==
    IF \E k \in 1..Len(s.tracks) : s.tracks[k].id = id
    THEN s.tracks[CHOOSE k \in 1..Len(s.tracks) : s.tracks[k].id = id]
    ELSE None

\* track.get_clip_by_id(clip_id)
GetClipById(track, id) ==
    IF \E k \in 1..Len(track.clips) : track.clips[k].id = id
    THEN track.clips[CHOOSE k \in 1..Len(track.clips) : track.clips[k].id = id]
    ELSE None

\* song.get_track_index(track_id): 0-based
GetTrackIndex(s, id) ==
    (CHOOSE k \in 1..Len(s.tracks) : s.tracks[k].id = id) - 1

InsertAt(seq, index, x) ==
    SubSeq(seq, 1, index) \o <<x>> \o SubSeq(seq, index + 1, Len(seq))

NewTrackId == "new_track"
NewClipId == "new_clip"

\* song.create_track(type, index): a new empty track at 0-based `index`
CreateTrack(s, type, index) ==
    [s EXCEPT !.tracks =
        InsertAt(@, index, [id |-> NewTrackId, type |-> type, clips |-> <<>>])]

\* track.create_midi_clip(clip_start_tick, clip_end_tick, insert_clip=True)
CreateMidiClip(s, trackId, startTick, endTick) ==
    [s EXCEPT !.tracks = [k \in 1..Len(@) |->
        IF @[k].id = trackId
        THEN [@[k] EXCEPT !.clips = Append(@,
                [id |-> NewClipId, type |-> "midi", start |-> startTick,
                 end |-> endTick, notes |-> <<>>])]
        ELSE @[k]]]

\* clip.create_note(pitch, velocity, start_tick, end_tick, ...) on the clip
\* `clipId` of the track `trackId`
CreateNote(s, trackId, clipId, n) ==
    [s EXCEPT !.tracks = [k \in 1..Len(@) |->
        IF @[k].id = trackId
        THEN [@[k] EXCEPT !.clips = [c \in 1..Len(@) |->
                IF @[c].id = clipId
                THEN [@[c] EXCEPT !.notes = Append(@, n)]
                ELSE @[c]]]
        ELSE @[k]]]

----------------------------------------------------------------------------
(* The inputs of an invocation *)

\* Raw note events of the engine, times in ms relative to the audio's start
N1 == [start |-> 500, end |-> 1000, pitch |-> 60, velocity |-> 100]
Ns == [start |-> 500, end |-> 501, pitch |-> 64, velocity |-> 80]
Nz == [start |-> 250, end |-> 250, pitch |-> 67, velocity |-> 90]

RawNotes == {N1, Ns, Nz}

SeqsUpTo(S, n) == UNION {[1..k -> S] : k \in 0..n}

RECURSIVE Flat(_)
\* the notes of midi_data.instruments in the order of the two nested loops
Flat(instruments) ==
    IF instruments = <<>> THEN <<>>
    ELSE instruments[1] \o Flat(Tail(instruments))

\* What the engine can return: no instrument, one instrument, or two
\* instruments that split a note list at any point.
EngineOutputs ==
    {<<>>}
    \cup {<<ns>> : ns \in SeqsUpTo(RawNotes, MaxNotes)}
    \cup UNION {{<<SubSeq(ns, 1, k), SubSeq(ns, k + 1, Len(ns))>> :
                    k \in 0..Len(ns)} : ns \in SeqsUpTo(RawNotes, MaxNotes)}

AudioClip(id, s, e) ==
    [id |-> id, type |-> "audio", start |-> s, end |-> e, notes |-> <<>>]

MidiClip(id, s, e, ns) ==
    [id |-> id, type |-> "midi", start |-> s, end |-> e, notes |-> ns]

Tracks(clipStart, clipEnd) ==
    <<[id |-> "t1", type |-> "audio",
       clips |-> <<AudioClip("c1", clipStart, clipEnd)>>],
      [id |-> "t2", type |-> "midi",
       clips |-> <<MidiClip("c2", 0, 960,
            <<[pitch |-> 48, velocity |-> 64, start_tick |-> 0, end_tick |-> 240]>>)>>]>>

\* 120 BPM throughout, the clip at tick 0
SongA == [tempos |-> <<[ticks |-> 0, time |-> 0, bpm |-> 120]>>,
          tracks |-> Tracks(0, 1920)]

\* 120 BPM, then 60 BPM from tick 960 (1000 ms): a tempo change inside the clip
SongB == [tempos |-> <<[ticks |-> 0, time |-> 0, bpm |-> 120],
                       [ticks |-> 960, time |-> 1000, bpm |-> 60]>>,
          tracks |-> Tracks(480, 2880)]

\* 60 BPM throughout, the clip at tick 480 (1000 ms)
SongC == [tempos |-> <<[ticks |-> 0, time |-> 0, bpm |-> 60]>>,
          tracks |-> Tracks(480, 1440)]

Songs == {SongA, SongB, SongC}

TrackIds == {"t1", "t2", "tx"}
ClipIds == {"c1", "cx"}

\* The collaborator calls that can raise, in program order
Steps == <<"mktemp", "write", "predict", "track", "clip", "note">>

EmptyFrame ==
    [track |-> None, clip |-> None, target_tempo |-> 0, minFreq |-> 0,
     maxFreq |-> 0, clip_start_time |-> 0, tmp_file |-> 0, midi_data |-> <<>>,
     new_midi_track |-> "None", new_midi_clip |-> "None", n |-> 0,
     note_start_time |-> 0, note_end_time |-> 0]

----------------------------------------------------------------------------
(* The statements of run *)

\* (a slip: the clip lookup goes unchecked)
ResolveOutcomeMutant(s, p) ==
    IF GetTrackById(s, p.trackId).id = "None" THEN "Cannot find track"
    ELSE "ok"
\* lines 143-148: the two lookups and their checks
ResolveOutcome(s, p) ==
    IF GetTrackById(s, p.trackId).id = "None" THEN "Cannot find track"
    ELSE IF GetClipById(GetTrackById(s, p.trackId), p.clipId).id = "None"
         THEN "Cannot find clip"
         ELSE "ok"

\* (a slip: the try block closed after the engine call)
CatchesMutant(step) == step = "predict"
\* lines 159-182: the steps whose exception the try block catches
Catches(step) == step \in {"predict", "track", "clip", "note"}

\* (a slip: one fixed path for the staged audio)
NewTmpNameMutant(fs) == 1
\* line 156: NamedTemporaryFile picks a name no file of the directory has
NewTmpName(fs) == Len(fs) + 1

\* opening a file for writing creates it, or truncates the one of that name
OpenFile(fs, name) ==
    IF name \in DOMAIN fs
    THEN [fs EXCEPT ![name] = [open |-> TRUE, data |-> <<>>]]
    ELSE Append(fs, [open |-> TRUE, data |-> <<>>])

\* predict reads the audio at tmp_file.name; the notes it returns are those
\* of the audio it read
Transcribe(data) == Flat(data)

\* lines 166-168
RunCreateTrack(s, f) ==
    CreateTrack(s, "midi", GetTrackIndex(s, f.track.id))

\* (a slip: the clip created on the source track)
RunCreateClipMutant(s, f) ==
    CreateMidiClip(s, f.track.id, f.clip.start, f.clip.end)
\* lines 169-172
RunCreateClip(s, f) ==
    CreateMidiClip(s, f.new_midi_track, f.clip.start, f.clip.end)

\* (a slip: the clip's start time left out)
NoteTimeMutant(t, clip_start_time) == t
\* lines 177-178
NoteTime(t, clip_start_time) == t + clip_start_time

\* (a slip: a note equal to one already handed over is skipped)
RunCreateNoteMutant(s, f, note) ==
    LET n == [pitch |-> note.pitch, velocity |-> note.velocity,
              start_tick |-> SecondsToTick(s, f.note_start_time),
              end_tick |-> SecondsToTick(s, f.note_end_time)]
        c == GetClipById(GetTrackById(s, f.new_midi_track), f.new_midi_clip)
    IN  IF \E k \in 1..Len(c.notes) : c.notes[k] = n THEN s
        ELSE CreateNote(s, f.new_midi_track, f.new_midi_clip, n)
\* lines 180-181
RunCreateNote(s, f, note) ==
    CreateNote(s, f.new_midi_track, f.new_midi_clip,
        [pitch |-> note.pitch, velocity |-> note.velocity,
         start_tick |-> SecondsToTick(s, f.note_start_time),
         end_tick |-> SecondsToTick(s, f.note_end_time)])

\* (a slip: the engine call inside the loop)
LoopNextMutant(f) ==
    IF f.n < Len(Flat(f.midi_data)) THEN "predict" ELSE "finally"
\* lines 173-175: the loops go on to the next note, or end
LoopNext(f) ==
    IF f.n < Len(Flat(f.midi_data)) THEN "translate" ELSE "finally"

\* Whether step `step` of invocation i raises
Raises(i, step) ==
    /\ env[i].fail = step
    /\ step = "note" => env[i].failNote = frame[i].n + 1

\* A step raises: into the handler when the try block covers it, else out of run
Fail(i, step) ==
    IF Catches(step)
    THEN /\ pc' = [pc EXCEPT ![i] = "except"]
         /\ caught' = [caught EXCEPT ![i] = step]
         /\ exc' = exc
    ELSE /\ pc' = [pc EXCEPT ![i] = "raised"]
         /\ exc' = [exc EXCEPT ![i] = step]
         /\ caught' = caught

Goto(i, label) ==
    /\ pc' = [pc EXCEPT ![i] = label]
    /\ UNCHANGED <<exc, caught>>

----------------------------------------------------------------------------
(* The steps of an invocation *)

\* The caller invokes run(song, params)
Call(i) ==
    /\ pc[i] = "idle"
    /\ Goto(i, "resolve")
    /\ UNCHANGED <<before, params, env, song, frame, files, basic_pitch_model>>

\* lines 141-148
Resolve(i) ==
    /\ pc[i] = "resolve"
    /\ LET r == ResolveOutcome(song[i], params[i])
           t == GetTrackById(song[i], params[i].trackId)
       IN  IF r = "ok"
           THEN /\ frame' = [frame EXCEPT ![i].track = t,
                                 ![i].clip = GetClipById(t, params[i].clipId)]
                /\ Goto(i, "prepare")
           ELSE /\ pc' = [pc EXCEPT ![i] = "raised"]
                /\ exc' = [exc EXCEPT ![i] = r]
                /\ UNCHANGED <<frame, caught>>
    /\ UNCHANGED <<before, params, env, song, files, basic_pitch_model>>

\* lines 149-154
Prepare(i) ==
    /\ pc[i] = "prepare"
    /\ IF frame[i].clip.id = "None"
       THEN \* clip.get_clip_start_tick() on None
            /\ pc' = [pc EXCEPT ![i] = "raised"]
            /\ exc' = [exc EXCEPT ![i] = "AttributeError"]
            /\ UNCHANGED <<frame, caught>>
       ELSE /\ frame' = [frame EXCEPT
                    ![i].target_tempo =
                        TempoAtTick(song[i], frame[i].clip.start).bpm,
                    ![i].minFreq = MinFreqOf(params[i].minPitch),
                    ![i].maxFreq = MaxFreqOf(params[i].maxPitch),
                    ![i].clip_start_time =
                        TickToSeconds(song[i], frame[i].clip.start)]
            /\ Goto(i, "mktemp")
    /\ UNCHANGED <<before, params, env, song, files, basic_pitch_model>>

\* line 156
MkTemp(i) ==
    /\ pc[i] = "mktemp"
    /\ IF Raises(i, "mktemp")
       THEN /\ Fail(i, "mktemp")
            /\ UNCHANGED <<frame, files>>
       ELSE /\ files' = OpenFile(files, NewTmpName(files))
            /\ frame' = [frame EXCEPT ![i].tmp_file = NewTmpName(files)]
            /\ Goto(i, "write")
    /\ UNCHANGED <<before, params, env, song, basic_pitch_model>>

\* line 157
WriteTmp(i) ==
    /\ pc[i] = "write"
    /\ IF Raises(i, "write") \/ ~files[frame[i].tmp_file].open
       THEN /\ Fail(i, "write")
            /\ UNCHANGED files
       ELSE /\ files' = [files EXCEPT ![frame[i].tmp_file].data =
                            Append(@, params[i].audio)]
            /\ Goto(i, "predict")
    /\ UNCHANGED <<before, params, env, song, frame, basic_pitch_model>>

\* lines 160-165
Predict(i) ==
    /\ pc[i] = "predict"
    /\ IF \/ Raises(i, "predict")
          \/ ~files[frame[i].tmp_file].open
          \/ basic_pitch_model # "loaded"
       THEN /\ Fail(i, "predict")
            /\ UNCHANGED frame
       ELSE /\ frame' = [frame EXCEPT ![i].midi_data =
                            Transcribe(files[frame[i].tmp_file].data)]
            /\ Goto(i, "create_track")
    /\ UNCHANGED <<before, params, env, song, files, basic_pitch_model>>

\* lines 166-168
CreateTrackStep(i) ==
    /\ pc[i] = "create_track"
    /\ IF Raises(i, "track")
       THEN /\ Fail(i, "track")
            /\ UNCHANGED <<song, frame>>
       ELSE /\ song' = [song EXCEPT ![i] = RunCreateTrack(@, frame[i])]
            /\ frame' = [frame EXCEPT ![i].new_midi_track = NewTrackId]
            /\ Goto(i, "create_clip")
    /\ UNCHANGED <<before, params, env, files, basic_pitch_model>>

\* lines 169-172, and the entry of the loops
CreateClipStep(i) ==
    /\ pc[i] = "create_clip"
    /\ IF Raises(i, "clip")
       THEN /\ Fail(i, "clip")
            /\ UNCHANGED <<song, frame>>
       ELSE /\ song' = [song EXCEPT ![i] = RunCreateClip(@, frame[i])]
            /\ frame' = [frame EXCEPT ![i].new_midi_clip = NewClipId]
            /\ Goto(i, LoopNext(frame[i]))
    /\ UNCHANGED <<before, params, env, files, basic_pitch_model>>

\* lines 176-179
Translate(i) ==
    /\ pc[i] = "translate"
    /\ LET note == Flat(frame[i].midi_data)[frame[i].n + 1]
       IN  frame' = [frame EXCEPT
                ![i].note_start_time =
                    NoteTime(note.start, frame[i].clip_start_time),
                ![i].note_end_time =
                    NoteTime(note.end, frame[i].clip_start_time)]
    /\ Goto(i, "insert")
    /\ UNCHANGED <<before, params, env, song, files, basic_pitch_model>>

\* lines 180-181, and the step of the loops
Insert(i) ==
    /\ pc[i] = "insert"
    /\ IF Raises(i, "note")
       THEN /\ Fail(i, "note")
            /\ UNCHANGED <<song, frame>>
       ELSE /\ song' = [song EXCEPT ![i] = RunCreateNote(@, frame[i],
                            Flat(frame[i].midi_data)[frame[i].n + 1])]
            /\ frame' = [frame EXCEPT ![i].n = @ + 1]
            /\ Goto(i, LoopNext(frame'[i]))
    /\ UNCHANGED <<before, params, env, files, basic_pitch_model>>

\* lines 182-183
Except(i) ==
    /\ pc[i] = "except"
    /\ Goto(i, "finally")
    /\ UNCHANGED <<before, params, env, song, frame, files, basic_pitch_model>>

\* lines 184-185: tmp_file.close(), which also deletes the file; run returns
Finally(i) ==
    /\ pc[i] = "finally"
    /\ files' = [files EXCEPT ![frame[i].tmp_file].open = FALSE]
    /\ Goto(i, "done")
    /\ UNCHANGED <<before, params, env, song, frame, basic_pitch_model>>

Step(i) ==
    \/ Call(i)
    \/ Resolve(i)
    \/ Prepare(i)
    \/ MkTemp(i)
    \/ WriteTmp(i)
    \/ Predict(i)
    \/ CreateTrackStep(i)
    \/ CreateClipStep(i)
    \/ Translate(i)
    \/ Insert(i)
    \/ Except(i)
    \/ Finally(i)

Next == \E i \in Inv : Step(i)

----------------------------------------------------------------------------
(* Initial states *)

\* A call with resolvable ids, and what its collaborators will do
GoodCalls ==
    {[p |-> [trackId |-> "t1", clipId |-> "c1", minPitch |-> DefaultMinPitch,
             maxPitch |-> DefaultMaxPitch, audio |-> a],
      e |-> [fail |-> st, failNote |-> k]] :
        a \in EngineOutputs,
        st \in {"none"} \cup {Steps[x] : x \in 1..Len(Steps)},
        k \in 0..MaxNotes}

\* a failing note insertion is one of the calls made; a call that fails
\* before the engine returns has no notes to go through
CanonicalCalls ==
    {c \in GoodCalls :
        /\ (c.e.fail = "note") = (c.e.failNote > 0)
        /\ c.e.failNote <= Len(Flat(c.p.audio))
        /\ c.e.fail \in {"mktemp", "write", "predict"} => c.p.audio = <<>>}

\* A call whose trackId or clipId does not resolve
BadCalls ==
    {[p |-> [trackId |-> t, clipId |-> c, minPitch |-> DefaultMinPitch,
             maxPitch |-> DefaultMaxPitch, audio |-> <<>>],
      e |-> [fail |-> "none", failNote |-> 0]] :
        t \in TrackIds, c \in ClipIds} \ GoodCalls

\* A call that is never made
NoCall ==
    [p |-> [trackId |-> "tx", clipId |-> "cx", minPitch |-> DefaultMinPitch,
            maxPitch |-> DefaultMaxPitch, audio |-> <<>>],
     e |-> [fail |-> "none", failNote |-> 0]]

InitWith(calls, songs, active) ==
    /\ \E cs \in [active -> calls] :
        /\ params = [i \in Inv |-> IF i \in active THEN cs[i].p ELSE NoCall.p]
        /\ env = [i \in Inv |-> IF i \in active THEN cs[i].e ELSE NoCall.e]
    /\ \E ss \in [active -> songs] :
        song = [i \in Inv |-> IF i \in active THEN ss[i] ELSE SongA]
    /\ before = song
    /\ pc = [i \in Inv |-> IF i \in active THEN "idle" ELSE "off"]
    /\ frame = [i \in Inv |-> EmptyFrame]
    /\ exc = [i \in Inv |-> "none"]
    /\ caught = [i \in Inv |-> "none"]
    /\ files = <<>>
    /\ basic_pitch_model = "loaded"

\* One invocation, over every call and song of the model
Init == InitWith(CanonicalCalls \cup BadCalls, Songs, {1})

Spec == Init /\ [][Next]_vars

\* An invocation that has been called runs on: run has no wait in it, and the
\* engine call is taken to return
FairSpec == Spec /\ WF_vars(Next)

\* Concurrent invocations, each on the Song of its own request
ConcCalls ==
    {c \in CanonicalCalls :
        \/ c.p.audio = <<>> /\ c.e.fail = "write"
        \/ c.p.audio = <<<<N1>>>> /\ c.e.fail \in {"none", "note"}
        \/ c.p.audio = <<<<Nz>>>> /\ c.e.fail = "none"}

InitConc == InitWith(ConcCalls, {SongA}, Inv)

SpecConc == InitConc /\ [][Next]_vars

\* The pitch window: every pitch range of the parameter widgets, up to the
\* point where run has computed minFreq and maxFreq
PitchCalls ==
    {[p |-> [trackId |-> "t1", clipId |-> "c1", minPitch |-> lo,
             maxPitch |-> hi, audio |-> <<>>],
      e |-> [fail |-> "none", failNote |-> 0]] :
        lo \in MinAllowedPitch..MaxAllowedPitch,
        hi \in MinAllowedPitch..MaxAllowedPitch}

InitFreq ==
    InitWith({c \in PitchCalls : c.p.minPitch <= c.p.maxPitch}, {SongA}, {1})

NextFreq == Call(1) \/ Resolve(1) \/ Prepare(1)

SpecFreq == InitFreq /\ [][NextFreq]_vars

----------------------------------------------------------------------------
(* What the claims speak of *)

Terminal(i) == pc[i] \in {"done", "raised"}

Started(i) == pc[i] \notin {"off", "idle", "resolve"}

TrackMissing(i) ==
    \A k \in 1..Len(before[i].tracks) :
        before[i].tracks[k].id # params[i].trackId

ClipMissing(i) ==
    /\ ~TrackMissing(i)
    /\ \A k \in 1..Len(before[i].tracks) :
        before[i].tracks[k].id = params[i].trackId =>
            \A c \in 1..Len(before[i].tracks[k].clips) :
                before[i].tracks[k].clips[c].id # params[i].clipId

\* The tracks of the song that were not in it when run was called
NewTracks(i) ==
    {k \in 1..Len(song[i].tracks) :
        \A m \in 1..Len(before[i].tracks) :
            before[i].tracks[m].id # song[i].tracks[k].id}

\* The notes handed to the destination clip so far, in order
DestNotes(i) ==
    LET t == GetTrackById(song[i], NewTrackId)
    IN  IF t.id = "None" THEN <<>>
        ELSE LET c == GetClipById(t, NewClipId)
             IN  IF c.id = "None" THEN <<>> ELSE c.notes

\* The raw note events the engine returned to invocation i
RawEvents(i) == Flat(frame[i].midi_data)

\* Absolute time of a raw event time, in ms
AbsTime(i, t) ==
    TickToSeconds(before[i], GetClipById(GetTrackById(before[i],
        params[i].trackId), params[i].clipId).start) + t

\* seconds to ticks at one constant tempo
ConstTempoTick(bpm, ms) == Round(ms * bpm * PPQ, MsPerMinute)

----------------------------------------------------------------------------
(* C1: a trackId the song does not contain, or a clipId the resolved track  *)
(* does not contain, makes run raise to the caller before any mutation:     *)
(* the song is as it was before the call, and no track, clip, note or       *)
(* temporary file has been created.                                         *)
C1_MissingAbortsUnmutated ==
    \A i \in Inv :
        (Started(i) /\ (TrackMissing(i) \/ ClipMissing(i))) =>
            /\ pc[i] = "raised"
            /\ exc[i] = (IF TrackMissing(i) THEN "Cannot find track"
                         ELSE "Cannot find clip")
            /\ song[i] = before[i]
            /\ frame[i].tmp_file = 0
            /\ files = <<>>

\* run has raised for a clip id that the resolved track does not contain
C1_Witness ==
    \E i \in Inv :
        /\ ClipMissing(i)
        /\ pc[i] = "raised"
        /\ exc[i] = "Cannot find clip"

(* C2: every note handed to the destination clip has end_tick > start_tick, *)
(* and a raw event whose converted ticks satisfy end_tick <= start_tick is  *)
(* inserted with end_tick = start_tick + 1.                                 *)
C2_MinimumDurationClamp ==
    \A i \in Inv : \A k \in 1..Len(DestNotes(i)) :
        LET n == DestNotes(i)[k]
            r == RawEvents(i)[k]
            s == SecondsToTick(before[i], AbsTime(i, r.start))
            e == SecondsToTick(before[i], AbsTime(i, r.end))
        IN  /\ n.end_tick > n.start_tick
            /\ e <= s => n.end_tick = n.start_tick + 1

(* C3: an invocation that completes the loops has issued exactly one note   *)
(* insertion per raw note event, in the engine's order, events that map to  *)
(* the same (pitch, start_tick, end_tick) included; while the loops run the *)
(* number of insertions is the number of events gone through.               *)
C3_OneInsertionPerEvent ==
    \A i \in Inv :
        /\ pc[i] \in {"translate", "insert"} =>
                Len(DestNotes(i)) = frame[i].n
        /\ (pc[i] \in {"finally", "done"} /\ caught[i] = "none") =>
            /\ Len(DestNotes(i)) = Len(RawEvents(i))
            /\ \A k \in 1..Len(RawEvents(i)) :
                /\ DestNotes(i)[k].pitch = RawEvents(i)[k].pitch
                /\ DestNotes(i)[k].velocity = RawEvents(i)[k].velocity

\* run has returned after two raw events that map to the same note: the clip
\* was handed both
C3_Witness ==
    \E i \in Inv :
        /\ pc[i] = "done"
        /\ caught[i] = "none"
        /\ Len(RawEvents(i)) = 2
        /\ RawEvents(i)[1] = RawEvents(i)[2]
        /\ Len(DestNotes(i)) = 2
        /\ DestNotes(i)[1] = DestNotes(i)[2]

(* C4: in every terminal state of run, a temporary file that was created    *)
(* has been closed.                                                         *)
C4_TmpFileReleased ==
    \A i \in Inv :
        (Terminal(i) /\ frame[i].tmp_file # 0) =>
            ~files[frame[i].tmp_file].open

(* C5: a failure of the engine call, of the track or clip creation or of a  *)
(* note insertion is caught inside run: run returns normally, and what was  *)
(* created before the failure is still in the song.                         *)
C5_FailureSwallowedNoRollback ==
    \A i \in Inv :
        /\ env[i].fail \in {"predict", "track", "clip", "note"} =>
            /\ pc[i] # "raised"
            /\ exc[i] = "none"
        /\ caught[i] # "none" =>
            /\ caught[i] = env[i].fail
            /\ pc[i] \in {"except", "finally", "done"}
            /\ caught[i] \in {"predict", "track"} => song[i] = before[i]
            /\ caught[i] = "clip" =>
                /\ Cardinality(NewTracks(i)) = 1
                /\ GetTrackById(song[i], NewTrackId).clips = <<>>
            /\ caught[i] = "note" =>
                /\ Cardinality(NewTracks(i)) = 1
                /\ Len(GetTrackById(song[i], NewTrackId).clips) = 1
                /\ Len(DestNotes(i)) = env[i].failNote - 1

\* run has returned normally after its second note insertion failed: the
\* destination track, its clip and the first note are in the song
C5_Witness ==
    \E i \in Inv :
        /\ pc[i] = "done"
        /\ caught[i] = "note"
        /\ exc[i] = "none"
        /\ Len(DestNotes(i)) = 1

(* C6: in every reachable state the tracks the song had before the call,    *)
(* the source track and its clips among them, are as they were; every       *)
(* track, clip and note run creates is in the one new destination track.    *)
C6_SourceReadOnly ==
    \A i \in Inv :
        /\ \A m \in 1..Len(before[i].tracks) :
            GetTrackById(song[i], before[i].tracks[m].id) = before[i].tracks[m]
        /\ Len(song[i].tracks) = Len(before[i].tracks) + Cardinality(NewTracks(i))
        /\ Cardinality(NewTracks(i)) <= 1
        /\ \A k \in NewTracks(i) : song[i].tracks[k].id = frame[i].new_midi_track
        /\ song[i].tempos = before[i].tempos

\* run has returned with a destination clip that holds a note
C6_Witness ==
    \E i \in Inv :
        /\ pc[i] = "done"
        /\ Len(DestNotes(i)) >= 1
        /\ GetTrackById(song[i], "t1") = before[i].tracks[1]

(* C7 (as stated): for all minPitch <= maxPitch in [28, 102] the window      *)
(* [minFreq, maxFreq] strictly contains [pitch_to_hz(minPitch),             *)
(* pitch_to_hz(maxPitch)]: at least one of its ends lies strictly outside.  *)
C7_WindowStrictlyContains ==
    \A i \in Inv :
        pc[i] = "mktemp" =>
            \/ frame[i].minFreq * HzScale < PitchToHz(params[i].minPitch)
            \/ frame[i].maxFreq * HzScale > PitchToHz(params[i].maxPitch)

(* C7 (amended): for all minPitch <= maxPitch in [28, 102] the window        *)
(* contains the pitch range's frequencies, minFreq <= pitch_to_hz(minPitch) *)
(* and pitch_to_hz(maxPitch) <= maxFreq, each end less than 1 Hz away; the  *)
(* ends coincide where pitch_to_hz is a whole number (the A's: 33, 45, 57,  *)
(* 69, 81, 93).                                                             *)
C7_WindowContains ==
    \A i \in Inv :
        pc[i] = "mktemp" =>
            LET lo == PitchToHz(params[i].minPitch)
                hi == PitchToHz(params[i].maxPitch)
            IN  /\ frame[i].minFreq * HzScale <= lo
                /\ lo < (frame[i].minFreq + 1) * HzScale
                /\ hi <= frame[i].maxFreq * HzScale
                /\ (frame[i].maxFreq - 1) * HzScale < hi
                /\ frame[i].minFreq <= frame[i].maxFreq
                /\ (params[i].minPitch - 69) % 12 = 0 =>
                        frame[i].minFreq * HzScale = lo
                /\ (params[i].maxPitch - 69) % 12 = 0 =>
                        frame[i].maxFreq * HzScale = hi

\* run has computed the window for minPitch 57 (220 Hz) and maxPitch 69
\* (440 Hz): it is [220, 440]
C7_Witness ==
    \E i \in Inv :
        /\ pc[i] = "mktemp"
        /\ params[i].minPitch = 57
        /\ params[i].maxPitch = 69
        /\ frame[i].minFreq = 220
        /\ frame[i].maxFreq = 440

BeforeTempoChanges(s, ms) == \A k \in 2..Len(s.tempos) : ms < s.tempos[k].time

C9_Own ==
    \A i \in Inv :
        /\ frame[i].tmp_file # 0 =>
            /\ \A j \in Inv \ {i} : frame[j].tmp_file # frame[i].tmp_file
            /\ files[frame[i].tmp_file].data \in {<<>>, <<params[i].audio>>}
        /\ frame[i].midi_data \in {<<>>, params[i].audio}
        /\ Len(DestNotes(i)) <= Len(Flat(params[i].audio))
        /\ \A k \in 1..Len(DestNotes(i)) :
                DestNotes(i)[k].pitch = Flat(params[i].audio)[k].pitch
        /\ \A m \in 1..Len(before[i].tracks) :
            GetTrackById(song[i], before[i].tracks[m].id) = before[i].tracks[m]
        /\ Cardinality(NewTracks(i)) <= 1
        /\ basic_pitch_model = "loaded"

C9_StepIsLocal ==
    \A j \in Inv :
        pc'[j] = pc[j] =>
            /\ song'[j] = song[j]
            /\ frame'[j] = frame[j]
            /\ exc'[j] = exc[j]
            /\ caught'[j] = caught[j]

----------------------------------------------------------------------------
(* The phases of an invocation *)

\* Creating the destination track and clip opens the translation; closing the
\* temporary file closes the phase the invocation ended in.
Phase(i) ==
    CASE pc[i] \in {"off", "idle"} -> "Idle"
      [] pc[i] \in {"resolve", "prepare", "mktemp", "write"} -> "ResolvingInputs"
      [] pc[i] = "predict" -> "Transcribing"
      [] pc[i] \in {"create_track", "create_clip", "translate"} -> "Translating"
      [] pc[i] = "insert" -> "Inserting"
      [] pc[i] \in {"except", "raised"} -> "Failed"
      [] pc[i] \in {"finally", "done"} ->
            IF caught[i] = "none" THEN "Done" ELSE "Failed"

Rank(ph) ==
    CASE ph = "Idle" -> 0
      [] ph = "ResolvingInputs" -> 1
      [] ph = "Transcribing" -> 2
      [] ph = "Translating" -> 3
      [] ph = "Inserting" -> 4
      [] ph = "Done" -> 5
      [] ph = "Failed" -> 6

Working == {"ResolvingInputs", "Transcribing", "Translating", "Inserting"}

(* C10 (as stated): the phases are entered in the order Idle,                *)
(* ResolvingInputs, Transcribing, Translating, Inserting, Done with no      *)
(* backward transition.                                                     *)
C10_NoBackwardTransition ==
    [][\A i \in Inv : Rank(Phase(i)') >= Rank(Phase(i))]_vars

Edge(a, b) ==
    \/ a = b
    \/ a = "Idle" /\ b = "ResolvingInputs"
    \/ a = "ResolvingInputs" /\ b = "Transcribing"
    \/ a = "Transcribing" /\ b = "Translating"
    \/ a = "Translating" /\ b = "Inserting"
    \/ a = "Inserting" /\ b = "Translating"
    \/ a = "Inserting" /\ b = "Done"
    \/ a = "Translating" /\ b = "Done"
    \/ a \in Working /\ b = "Failed"

(* C10 (amended): every invocation goes Idle -> ResolvingInputs ->           *)
(* Transcribing -> Translating -> Inserting -> Done, except that            *)
(* translation and insertion alternate note by note (Inserting goes back to *)
(* Translating for each further note) and an engine result without notes    *)
(* goes from Translating to Done; Failed and Done are absorbing, Failed is  *)
(* entered only from ResolvingInputs, Transcribing, Translating or          *)
(* Inserting, the engine is called only after the inputs are resolved, and  *)
(* every invocation eventually ends in Done or Failed.                      *)
C10_Lifecycle ==
    /\ [][\A i \in Inv : Edge(Phase(i), Phase(i)')]_vars
    /\ \A i \in Inv : pc[i] = "idle" ~> Terminal(i)

\* The second note is being translated after the first was inserted
C10_Witness ==
    \E i \in Inv :
        /\ pc[i] = "translate"
        /\ frame[i].n = 1
        /\ Len(DestNotes(i)) = 1

====
